---- MODULE Spec2Model ----
(***************************************************************************)
(* A model of the telemetry dashboard backend:                             *)
(*   backend/continuous_data.py  the sampler loop (writer and pruner)      *)
(*   backend/init_db.py          the one-shot seeder                       *)
(*   backend/db.py, main.py      the window query behind GET /api/metrics  *)
(*   backend/models.py           the table with UNIQUE(timestamp,sensor_id)*)
(*                                                                         *)
(* Sensor values are kept as integers in units of 0.05 (the greatest       *)
(* common step of the perturbation list), so 21.0 is 420 and 0.1 is 2.     *)
(* The committed database is `store`; the rows the sampler's connection    *)
(* has inserted and not yet committed are `txn`.  Other connections read   *)
(* `store` only (SQLite isolation between connections).                    *)
(***************************************************************************)
EXTENDS Integers, Sequences, FiniteSets, TLC

VARIABLES
    now,          \* int(time.time()): the wall clock in whole seconds
    store,        \* committed rows of table metrics
    LAST_VALUES,  \* continuous_data.LAST_VALUES
    pc,           \* position of the sampler loop
    sensorIdx,    \* position of `for sensor_id in SENSORS`
    timestamp,    \* local `timestamp` of generate_and_insert_metric
    txn,          \* rows inserted on the sampler's connection, not committed
    failedAt,     \* where the current tick's try block raised (0: nowhere)
    cutoff,       \* local `cutoff` of clean_old_data
    deleted,      \* local `deleted` of clean_old_data
    time_index,   \* local `time_index` of run()
    wake,         \* earliest clock value at which time.sleep(1) returns
    stdout,       \* the lines the sampler printed in the current tick
    failures,     \* number of store operations of the sampler that raised
    draws,        \* number of non-zero perturbations drawn so far
    spc,          \* position of the seeder (populate_database)
    qpc,          \* position of each GET /api/metrics request
    qcutoff,      \* local `cutoff` of get_metrics_last_n_minutes
    qresult       \* the list get_metrics_last_n_minutes returns

vars == <<now, store, LAST_VALUES, pc, sensorIdx, timestamp, txn, failedAt,
          cutoff, deleted, time_index, wake, stdout, failures, draws, spc,
          qpc, qcutoff, qresult>>

----------------------------------------------------------------------------
(* Bounds of the model *)

\* the clock runs from 0 to MaxTime
MaxTime == 2
\* stands for minutes * 60 = 3600 of clean_old_data and
\* get_metrics_last_n_minutes, scaled down so that rows expire within MaxTime
WindowSeconds == 1
\* stands for DATA_POINTS = HOURS * 3600 of init_db.py, scaled down
DataPoints == 1
\* at most this many store operations of the sampler raise (duplicate keys
\* apart)
MaxFailures == 1
\* at most this many random draws of one behaviour are non-zero
MaxNonzero == 1
\* the same where the sampler runs alone (no seeder, no request)
MaxNonzeroAlone == 2

----------------------------------------------------------------------------
(* Program constants, values in units of 0.05 *)

SENSORS == <<"THS No. 1", "THS No. 2", "THS No. 3">>
TEMP_MIN == 320
TEMP_MAX == 520
HUMIDITY_MIN == 800
HUMIDITY_MAX == 1400
INITIAL_VALUES ==
    [s \in {"THS No. 1", "THS No. 2", "THS No. 3"} |->
        CASE s = "THS No. 1" -> [temp |-> 420, humidity |-> 1100]
          [] s = "THS No. 2" -> [temp |-> 440, humidity |-> 1160]
          [] s = "THS No. 3" -> [temp |-> 410, humidity |-> 1040]]
\* random.choice([-0.1, -0.05, 0, 0.05, 0.1])
CHANGES == {-2, -1, 0, 1, 2}
METRICS == {"temp", "humidity"}
Requests == {1, 2}

SensorIds == {SENSORS[i] : i \in 1..Len(SENSORS)}
IndexOf(s) == CHOOSE i \in 1..Len(SENSORS) : SENSORS[i] = s

Max(a, b) == IF a >= b THEN a ELSE b
Min(a, b) == IF a <= b THEN a ELSE b

----------------------------------------------------------------------------
(* Value Generator *)

\* a clamp that forgets the upper bound
ClampNoUpperBound(metric_type, v) ==
    IF metric_type = "temp" THEN Max(TEMP_MIN, v) ELSE Max(HUMIDITY_MIN, v)

\* a walk that bounces off the boundary instead of stopping at it
ClampReflect(metric_type, v) ==
    LET lo == IF metric_type = "temp" THEN TEMP_MIN ELSE HUMIDITY_MIN
        hi == IF metric_type = "temp" THEN TEMP_MAX ELSE HUMIDITY_MAX
    IN  IF v > hi THEN hi - (v - hi)
        ELSE IF v < lo THEN lo + (lo - v)
        ELSE v

\* lines 51-54: max(MIN, min(MAX, new_value))
Clamp(metric_type, v) ==
    IF metric_type = "temp"
    THEN Max(TEMP_MIN, Min(TEMP_MAX, v))
    ELSE Max(HUMIDITY_MIN, Min(HUMIDITY_MAX, v))

\* the value generate_random_walk_value returns for the draw `change`
generate_random_walk_value(metric_type, last_value, change) ==
    Clamp(metric_type, last_value + change)

----------------------------------------------------------------------------
(* Time-Series Store *)

Row(ts, s, t, h) ==
    [timestamp |-> ts, sensor_id |-> s, temperature |-> t, humidity |-> h]

\* a table without the UNIQUE constraint
NoUniqueConstraint(db, pending, ts, s) == FALSE

\* UNIQUE(timestamp, sensor_id): an INSERT on a connection is checked against
\* the committed rows and the rows that connection has already inserted
UniqueViolation(db, pending, ts, s) ==
    \E r \in db \cup pending : r.timestamp = ts /\ r.sensor_id = s

\* cursor.execute(INSERT ...) adds the row to the connection's transaction
TxnAfterInsert(pending, row) == pending \cup {row}

\* a connection in autocommit mode: every INSERT is committed at once
StoreAfterInsertAutocommit(db, row) == db \cup {row}

\* ... and leaves the committed rows alone until conn.commit()
StoreAfterInsert(db, row) == db

\* conn.commit()
StoreAfterCommit(db, pending) == db \cup pending

\* a delete that also takes the rows at the cutoff
DeleteOlderOrEqual(db, c) == {r \in db : ~(r.timestamp <= c)}

\* a delete that removes one row a run (DELETE ... LIMIT 1)
DeleteOlderThanLimitOne(db, c) ==
    IF \E r \in db : r.timestamp < c
    THEN db \ {CHOOSE r \in db : r.timestamp < c}
    ELSE db

\* a delete without its WHERE clause
DeleteAll(db, c) == {}

\* DELETE FROM metrics WHERE timestamp < ?
DeleteOlderThan(db, c) == {r \in db : ~(r.timestamp < c)}

\* a read that sees the writer's uncommitted rows
VisibleUncommitted(db, pending) == db \cup pending

\* what a SELECT on another connection reads: committed rows only
Visible(db, pending) == db

\* a window that includes the cutoff
WindowInclusive(db, c) == {r \in db : r.timestamp >= c}

\* SELECT ... WHERE timestamp > ?
Window(db, c) == {r \in db : r.timestamp > c}

\* ORDER BY timestamp, sensor_id
RowBeforeByTime(a, b) ==
    \/ a.timestamp < b.timestamp
    \/ /\ a.timestamp = b.timestamp
       /\ IndexOf(a.sensor_id) <= IndexOf(b.sensor_id)

\* ORDER BY sensor_id, timestamp ASC
RowBefore(a, b) ==
    \/ IndexOf(a.sensor_id) < IndexOf(b.sensor_id)
    \/ /\ IndexOf(a.sensor_id) = IndexOf(b.sensor_id)
       /\ a.timestamp <= b.timestamp

RECURSIVE SortRows(_)
SortRows(S) ==
    IF S = {} THEN <<>>
    ELSE LET first == CHOOSE r \in S : \A o \in S : RowBefore(r, o)
         IN  <<first>> \o SortRows(S \ {first})

Range(seq) == {seq[i] : i \in 1..Len(seq)}

----------------------------------------------------------------------------
(* Random draws *)

DrawCost(c) == IF c = 0 THEN 0 ELSE 1

\* the draws of one run of the seeder: one per data point, sensor and metric
SeedKeys == (0..(DataPoints - 1)) \X SensorIds \X METRICS

RECURSIVE DrawVectors(_)
DrawVectors(budget) ==
    IF budget <= 0 THEN {[k \in SeedKeys |-> 0]}
    ELSE LET less == DrawVectors(budget - 1)
         IN  less \cup {[v EXCEPT ![k] = c] :
                           v \in less, k \in SeedKeys, c \in CHANGES \ {0}}

NonzeroIn(dv) == Cardinality({k \in SeedKeys : dv[k] # 0})

\* current_values[s][m] after data point i of populate_database
RECURSIVE SeedValue(_, _, _, _)
SeedValue(s, m, i, dv) ==
    IF i < 0 THEN INITIAL_VALUES[s][m]
    ELSE generate_random_walk_value(m, SeedValue(s, m, i - 1, dv), dv[<<i, s, m>>])

SeedRows(t0, dv) ==
    {Row(t0 + i, s, SeedValue(s, "temp", i, dv), SeedValue(s, "humidity", i, dv)) :
        i \in 0..(DataPoints - 1), s \in SensorIds}

----------------------------------------------------------------------------
Init ==
    /\ now = 0
    /\ store = {}
    /\ LAST_VALUES = INITIAL_VALUES
    /\ pc = "run"
    /\ sensorIdx = 1
    /\ timestamp = 0
    /\ txn = {}
    /\ failedAt = 0
    /\ cutoff = 0
    /\ deleted = 0
    /\ time_index = 0
    /\ wake = 0
    /\ stdout = <<>>
    /\ failures = 0
    /\ draws = 0
    /\ spc = "ready"
    /\ qpc = [q \in Requests |-> "idle"]
    /\ qcutoff = [q \in Requests |-> 0]
    /\ qresult = [q \in Requests |-> <<>>]

tickVars == <<sensorIdx, timestamp, txn, failedAt, cutoff, deleted, wake, stdout>>
samplerVars == <<LAST_VALUES, pc, tickVars, time_index, failures, draws>>
seederVars == <<spc>>
queryVars == <<qpc, qcutoff, qresult>>

\* the clock advances by one second
Advance ==
    /\ now < MaxTime
    /\ now' = now + 1
    /\ UNCHANGED <<store, samplerVars, seederVars, queryVars>>

----------------------------------------------------------------------------
(* Sampler Loop: continuous_data.py *)

\* the locals of generate_and_insert_metric and clean_old_data before a call
NoLocals ==
    /\ sensorIdx' = 1
    /\ timestamp' = 0
    /\ txn' = {}
    /\ failedAt' = 0
    /\ cutoff' = 0
    /\ deleted' = 0
    /\ wake' = 0
    /\ stdout' = <<>>

\* lines 63-66: timestamp = int(time.time()); conn = get_db()
BeginTick ==
    /\ pc = "run"
    /\ timestamp' = now
    /\ pc' = "insert"
    /\ UNCHANGED <<now, store, LAST_VALUES, sensorIdx, txn, failedAt, cutoff,
                   deleted, wake, stdout, time_index, failures, draws, seederVars,
                   queryVars>>

\* line 65 raises: get_db() is outside the try block, and neither
\* generate_and_insert_metric nor run() catches an Exception there: the
\* process ends with a traceback
BeginTickConnectFails ==
    /\ pc = "run"
    /\ timestamp' = now
    /\ failures < MaxFailures
    /\ failures' = failures + 1
    /\ pc' = "crashed"
    /\ UNCHANGED <<now, store, LAST_VALUES, sensorIdx, txn, failedAt, cutoff,
                   deleted, wake, stdout, time_index, draws, seederVars, queryVars>>

\* lines 71-72: both values are generated, and LAST_VALUES updated, before
\* the INSERT is attempted
WalkState(s, ct, ch) ==
    [LAST_VALUES EXCEPT
        ![s] = [temp |-> generate_random_walk_value("temp", LAST_VALUES[s]["temp"], ct),
                humidity |-> generate_random_walk_value("humidity",
                                                        LAST_VALUES[s]["humidity"], ch)]]

\* the non-zero draws a behaviour may hold: more where init_db.py is never
\* run and the sampler is the only process
DrawBudget == IF spc = "absent" THEN MaxNonzeroAlone ELSE MaxNonzero

\* the two draws of one loop iteration, within the budget of non-zero draws
Draw(ct, ch) ==
    /\ draws + DrawCost(ct) + DrawCost(ch) <= DrawBudget
    /\ draws' = draws + DrawCost(ct) + DrawCost(ch)
    /\ LAST_VALUES' = WalkState(SENSORS[sensorIdx], ct, ch)

\* lines 69-80, one iteration whose INSERT succeeds
InsertRow ==
    /\ pc = "insert"
    /\ ~UniqueViolation(store, txn, timestamp, SENSORS[sensorIdx])
    /\ \E ct \in CHANGES, ch \in CHANGES :
          LET s == SENSORS[sensorIdx]
              lv == WalkState(s, ct, ch)
              row == Row(timestamp, s, lv[s]["temp"], lv[s]["humidity"])
          IN  /\ Draw(ct, ch)
              /\ txn' = TxnAfterInsert(txn, row)
              /\ store' = StoreAfterInsert(store, row)
    /\ IF sensorIdx = Len(SENSORS)
       THEN pc' = "commit" /\ sensorIdx' = sensorIdx
       ELSE pc' = "insert" /\ sensorIdx' = sensorIdx + 1
    /\ UNCHANGED <<now, timestamp, failedAt, cutoff, deleted, wake, stdout,
                   time_index, failures, seederVars, queryVars>>

\* lines 69-88, an iteration whose INSERT hits the UNIQUE constraint: the
\* exception leaves the loop, lines 85-86 print nothing, line 88 closes the
\* connection and with it drops the uncommitted rows
InsertDuplicate ==
    /\ pc = "insert"
    /\ UniqueViolation(store, txn, timestamp, SENSORS[sensorIdx])
    /\ \E ct \in CHANGES, ch \in CHANGES : Draw(ct, ch)
    /\ failedAt' = sensorIdx
    /\ txn' = {}
    /\ pc' = "clean"
    /\ UNCHANGED <<now, store, sensorIdx, timestamp, cutoff, deleted, wake, stdout,
                   time_index, failures, seederVars, queryVars>>

\* a write phase whose failure skips the prune (clean_old_data() called
\* inside the try block)
InsertFailsSkipsPrune ==
    /\ pc = "insert"
    /\ \E ct \in CHANGES, ch \in CHANGES : Draw(ct, ch)
    /\ failedAt' = sensorIdx
    /\ failures < MaxFailures
    /\ failures' = failures + 1
    /\ stdout' = Append(stdout, "Error inserting metric")
    /\ txn' = {}
    /\ pc' = "sleep"
    /\ UNCHANGED <<now, store, sensorIdx, timestamp, cutoff, deleted, wake,
                   time_index, seederVars, queryVars>>

\* lines 69-88, an iteration whose INSERT raises anything else (database is
\* locked, disk I/O error): lines 85-86 print the error
InsertFails ==
    /\ pc = "insert"
    /\ \E ct \in CHANGES, ch \in CHANGES : Draw(ct, ch)
    /\ failedAt' = sensorIdx
    /\ failures < MaxFailures
    /\ failures' = failures + 1
    /\ stdout' = Append(stdout, "Error inserting metric")
    /\ txn' = {}
    /\ pc' = "clean"
    /\ UNCHANGED <<now, store, sensorIdx, timestamp, cutoff, deleted, wake,
                   time_index, seederVars, queryVars>>

\* lines 82-83 and 88: conn.commit() succeeds
Commit ==
    /\ pc = "commit"
    /\ store' = StoreAfterCommit(store, txn)
    /\ stdout' = Append(stdout, "Inserted metrics for 3 sensors")
    /\ txn' = {}
    /\ pc' = "clean"
    /\ UNCHANGED <<now, LAST_VALUES, sensorIdx, timestamp, failedAt, cutoff,
                   deleted, wake, time_index, failures, draws, seederVars, queryVars>>

\* line 82 raises: lines 85-86 print the error, line 88 drops the transaction
CommitFails ==
    /\ pc = "commit"
    /\ failedAt' = Len(SENSORS) + 1
    /\ failures < MaxFailures
    /\ failures' = failures + 1
    /\ stdout' = Append(stdout, "Error inserting metric")
    /\ txn' = {}
    /\ pc' = "clean"
    /\ UNCHANGED <<now, store, LAST_VALUES, sensorIdx, timestamp, cutoff, deleted,
                   wake, time_index, draws, seederVars, queryVars>>

\* lines 94-110 and 124-125: clean_old_data() deletes and commits, then run()
\* counts the tick and goes to sleep
clean_old_data ==
    /\ pc = "clean"
    /\ cutoff' = now - WindowSeconds
    /\ store' = DeleteOlderThan(store, now - WindowSeconds)
    /\ deleted' = Cardinality(store) - Cardinality(store')
    /\ stdout' = IF deleted' > 0 THEN Append(stdout, "Cleaned up old records")
                 ELSE stdout
    /\ time_index' = time_index + 1
    /\ wake' = now + 1
    /\ pc' = "sleep"
    /\ UNCHANGED <<now, LAST_VALUES, sensorIdx, timestamp, txn, failedAt, failures,
                   draws, seederVars, queryVars>>

\* lines 102-103 raise: lines 107-108 print the error, nothing is deleted
CleanFails ==
    /\ pc = "clean"
    /\ cutoff' = now - WindowSeconds
    /\ failures < MaxFailures
    /\ failures' = failures + 1
    /\ stdout' = Append(stdout, "Error cleaning old data")
    /\ time_index' = time_index + 1
    /\ wake' = now + 1
    /\ pc' = "sleep"
    /\ UNCHANGED <<now, store, LAST_VALUES, sensorIdx, timestamp, txn, failedAt,
                   deleted, draws, seederVars, queryVars>>

\* line 98 raises: get_db() is outside the try block of clean_old_data
CleanConnectFails ==
    /\ pc = "clean"
    /\ cutoff' = now - WindowSeconds
    /\ failures < MaxFailures
    /\ failures' = failures + 1
    /\ pc' = "crashed"
    /\ UNCHANGED <<now, store, LAST_VALUES, sensorIdx, timestamp, txn, failedAt,
                   deleted, wake, stdout, time_index, draws, seederVars, queryVars>>

\* a loop that does not sleep between ticks
WakeWithoutSleep ==
    /\ pc = "sleep"
    /\ pc' = "run"
    /\ NoLocals
    /\ UNCHANGED <<now, store, LAST_VALUES, time_index, failures, draws, seederVars,
                   queryVars>>

\* line 125: time.sleep(1) returns once a second has passed; the locals of
\* the finished calls are gone
Wake ==
    /\ pc = "sleep"
    /\ now >= wake
    /\ pc' = "run"
    /\ NoLocals
    /\ UNCHANGED <<now, store, LAST_VALUES, time_index, failures, draws, seederVars,
                   queryVars>>

\* a cancellation that commits what the tick has inserted so far
CancelCommits ==
    /\ pc \notin {"stopped", "crashed"}
    /\ pc' = "stopped"
    /\ store' = StoreAfterCommit(store, txn)
    /\ NoLocals
    /\ UNCHANGED <<now, LAST_VALUES, time_index, failures, draws, seederVars,
                   queryVars>>

\* lines 126-127: Ctrl+C; an open connection is closed by the finally block
\* (or with the process) and its uncommitted rows are dropped; run() returns
Cancel ==
    /\ pc \notin {"stopped", "crashed"}
    /\ pc' = "stopped"
    /\ NoLocals
    /\ UNCHANGED <<now, store, LAST_VALUES, time_index, failures, draws, seederVars,
                   queryVars>>

----------------------------------------------------------------------------
(* Seeder: init_db.py populate_database *)

\* lines 78-115: start_time = int(time.time()) - (HOURS * 3600); every INSERT
\* succeeds and the one transaction commits.  The sampler holds no write lock.
populate_database ==
    /\ spc = "ready"
    /\ txn = {}
    /\ \E dv \in DrawVectors(MaxNonzero - draws) :
          LET rows == SeedRows(now - DataPoints, dv)
          IN  /\ \A r \in rows : ~UniqueViolation(store, {}, r.timestamp, r.sensor_id)
              /\ store' = StoreAfterCommit(store, rows)
              /\ draws' = draws + NonzeroIn(dv)
    /\ spc' = "done"
    /\ UNCHANGED <<now, LAST_VALUES, pc, tickVars, time_index, failures, queryVars>>

\* lines 108-112: an INSERT raises (a key of the range is already stored, or
\* the sampler holds the write lock): error printed, rollback, return
PopulateFails ==
    /\ spc = "ready"
    /\ \/ txn # {}
       \/ \E i \in 0..(DataPoints - 1), s \in SensorIds :
             UniqueViolation(store, {}, now - DataPoints + i, s)
    /\ spc' = "failed"
    /\ UNCHANGED <<now, store, samplerVars, queryVars>>

----------------------------------------------------------------------------
(* Query Service: main.py get_metrics, db.py get_metrics_last_n_minutes *)

\* db.py lines 49-53: conn = get_db(); cutoff = int(time.time()) - minutes * 60
QueryBegin(q) ==
    /\ qpc[q] = "idle"
    /\ qcutoff' = [qcutoff EXCEPT ![q] = now - WindowSeconds]
    /\ qpc' = [qpc EXCEPT ![q] = "select"]
    /\ UNCHANGED <<now, store, samplerVars, seederVars, qresult>>

\* a query that prunes what it does not return
PruningQuery(q) ==
    /\ qpc[q] = "select"
    /\ qresult' = [qresult EXCEPT
                      ![q] = SortRows(Window(Visible(store, txn), qcutoff[q]))]
    /\ store' = Window(store, qcutoff[q])
    /\ qpc' = [qpc EXCEPT ![q] = "fetched"]
    /\ UNCHANGED <<now, samplerVars, seederVars, qcutoff>>

\* db.py lines 55-69: the SELECT and fetchall() read one snapshot
get_metrics_last_n_minutes(q) ==
    /\ qpc[q] = "select"
    /\ qresult' = [qresult EXCEPT
                      ![q] = SortRows(Window(Visible(store, txn), qcutoff[q]))]
    /\ qpc' = [qpc EXCEPT ![q] = "fetched"]
    /\ UNCHANGED <<now, store, samplerVars, seederVars, qcutoff>>

\* main.py lines 50-53: the response is sent; the request's locals are gone
QueryReturn(q) ==
    /\ qpc[q] = "fetched"
    /\ qpc' = [qpc EXCEPT ![q] = "idle"]
    /\ qcutoff' = [qcutoff EXCEPT ![q] = 0]
    /\ qresult' = [qresult EXCEPT ![q] = <<>>]
    /\ UNCHANGED <<now, store, samplerVars, seederVars>>

\* one GET /api/metrics request
Serve(q) ==
    \/ QueryBegin(q)
    \/ get_metrics_last_n_minutes(q)
    \/ QueryReturn(q)

----------------------------------------------------------------------------
(* The sampler loop when no store operation raises *)
SamplerSteps ==
    \/ BeginTick
    \/ InsertRow
    \/ InsertDuplicate
    \/ Commit
    \/ clean_old_data
    \/ Wake

(* Store failures in the sampler loop, and its cancellation *)
SamplerFaults ==
    \/ BeginTickConnectFails
    \/ InsertFails
    \/ CommitFails
    \/ CleanFails
    \/ CleanConnectFails
    \/ Cancel

(* The seeder *)
Seeder ==
    \/ populate_database
    \/ PopulateFails

(* The whole system with one client polling: clock, sampler, seeder and    *)
(* request 1.                                                              *)
Next ==
    \/ Advance
    \/ SamplerSteps
    \/ SamplerFaults
    \/ Seeder
    \/ Serve(1)

Spec == Init /\ [][Next]_vars

(* Two clients whose requests overlap, beside the sampler and the seeder;  *)
(* no store operation raises and the loop is not cancelled.                *)
NextPolling ==
    \/ Advance
    \/ SamplerSteps
    \/ Seeder
    \/ \E q \in Requests : Serve(q)

SpecPolling == Init /\ [][NextPolling]_vars

(* The sampler alone: init_db.py is never run and no request is served, so  *)
(* every stored row was written by this run of the loop.  A store operation *)
(* of the write phase may raise; a duplicate key cannot occur, since two    *)
(* ticks are at least a second apart.                                       *)
InitAlone ==
    /\ now = 0
    /\ store = {}
    /\ LAST_VALUES = INITIAL_VALUES
    /\ pc = "run"
    /\ sensorIdx = 1
    /\ timestamp = 0
    /\ txn = {}
    /\ failedAt = 0
    /\ cutoff = 0
    /\ deleted = 0
    /\ time_index = 0
    /\ wake = 0
    /\ stdout = <<>>
    /\ failures = 0
    /\ draws = 0
    /\ spc = "absent"
    /\ qpc = [q \in Requests |-> "idle"]
    /\ qcutoff = [q \in Requests |-> 0]
    /\ qresult = [q \in Requests |-> <<>>]

NextAlone ==
    \/ Advance
    \/ BeginTick
    \/ InsertRow
    \/ InsertFails
    \/ Commit
    \/ CommitFails
    \/ clean_old_data
    \/ Wake

SpecAlone == InitAlone /\ [][NextAlone]_vars

(* The value generator alone: repeated calls of generate_random_walk_value *)
(* from the initial values, with every perturbation at every step.  A call *)
(* reads and writes LAST_VALUES[sensor_id][metric_type] only, so the walk  *)
(* of each (sensor, metric) pair is explored with the other pairs at rest. *)
WalkStep ==
    /\ \E s \in SensorIds, m \in METRICS, change \in CHANGES :
          /\ \A s2 \in SensorIds, m2 \in METRICS :
                <<s2, m2>> # <<s, m>> => LAST_VALUES[s2][m2] = INITIAL_VALUES[s2][m2]
          /\ LAST_VALUES' =
                [LAST_VALUES EXCEPT
                    ![s][m] = generate_random_walk_value(m, LAST_VALUES[s][m], change)]
    /\ UNCHANGED <<now, store, pc, tickVars, time_index, failures, draws,
                   seederVars, queryVars>>

SpecWalk == Init /\ [][WalkStep]_vars

----------------------------------------------------------------------------
(* Properties *)

InRange(metric_type, v) ==
    IF metric_type = "temp"
    THEN TEMP_MIN <= v /\ v <= TEMP_MAX
    ELSE HUMIDITY_MIN <= v /\ v <= HUMIDITY_MAX

\* C1: after any number of walk steps from the initial values, with any
\* perturbation at each step, every sensor's temperature is in [16.0, 26.0]
\* and its humidity in [40.0, 70.0].
C1_WalkStaysInRange ==
    \A s \in SensorIds, m \in METRICS : InRange(m, LAST_VALUES[s][m])

\* a walk has reached a boundary of its range
C1_Witness ==
    \E s \in SensorIds :
        \/ LAST_VALUES[s]["temp"] = TEMP_MAX
        \/ LAST_VALUES[s]["humidity"] = HUMIDITY_MIN

SameKey(r1, r2) == r1.timestamp = r2.timestamp /\ r1.sensor_id = r2.sensor_id

KeysUnique == \A r1 \in store, r2 \in store : SameKey(r1, r2) => r1 = r2

\* the sampler's INSERT ran for a key that is already stored and hit the
\* constraint
DuplicateWrite ==
    /\ pc = "insert"
    /\ \E r \in store : r.timestamp = timestamp /\ r.sensor_id = SENSORS[sensorIdx]
    /\ pc' = "clean"
    /\ failures' = failures

\* C2: the store never holds two rows with one (sensor_id, timestamp), and a
\* write of the sampler for a stored key leaves the stored rows as they were
\* and prints no error.
C2_DuplicateKeyIgnored ==
    /\ []KeysUnique
    /\ [][DuplicateWrite => store' = store /\ stdout' = stdout]_vars

\* a tick ended on a duplicate key whose stored row holds other values than
\* the ones the sampler tried to write
C2_Witness ==
    /\ pc = "clean"
    /\ failedAt \in 1..Len(SENSORS)
    /\ stdout = <<>>
    /\ \E r \in store :
          /\ r.timestamp = timestamp
          /\ r.sensor_id = SENSORS[failedAt]
          /\ r.temperature # LAST_VALUES[r.sensor_id]["temp"]

\* C3: when one sensor's INSERT fails in a tick, every other sensor's reading
\* for the tick's timestamp is stored once the write phase has ended.
C3_OtherSensorsStored ==
    (pc = "clean" /\ failedAt \in 1..Len(SENSORS)) =>
        \A i \in 1..Len(SENSORS) :
            i # failedAt =>
                \E r \in store : r.timestamp = timestamp /\ r.sensor_id = SENSORS[i]

\* request q takes its snapshot in this step
Selects(q) == qpc[q] = "select" /\ qpc'[q] = "fetched"

Timestamps(db) == {r.timestamp : r \in db}

\* k ticks are stored in full: k * |SENSORS| rows, k timestamps, one row for
\* each timestamp and sensor
TicksStored(k) ==
    /\ Cardinality(store) = k * Len(SENSORS)
    /\ Cardinality(Timestamps(store)) = k
    /\ \A t \in Timestamps(store), s \in SensorIds :
          Cardinality({r \in store : r.timestamp = t /\ r.sensor_id = s}) = 1

\* the sampler has completed a tick; nothing has failed and nothing else has
\* written to the store, which was empty at the start
AfterCleanTicks == pc = "sleep" /\ failures = 0 /\ spc = "ready"

\* C5 as stated: after k ticks, k no larger than the retention window in
\* seconds, the store holds the k ticks in full.
C5_TicksStoredUpToWindow ==
    (AfterCleanTicks /\ time_index <= WindowSeconds) => TicksStored(time_index)

\* C5 as amended: after k ticks the store holds the k ticks in full, provided
\* the last prune ran no more than the retention window after the loop
\* started (the clock is 0 then, so its cutoff is not above 0).
C5_TicksStoredWithinWindow ==
    (AfterCleanTicks /\ cutoff <= 0) => TicksStored(time_index)

\* WindowSeconds + 1 ticks, one per second, all stored
C5_Witness ==
    /\ AfterCleanTicks
    /\ cutoff <= 0
    /\ time_index = WindowSeconds + 1
    /\ TicksStored(time_index)

\* the retention delete ran to its end in this step
Prunes == pc = "clean" /\ pc' = "sleep" /\ failures' = failures

\* C6: the retention delete with cutoff c removes all and only the rows with
\* timestamp < c; a row with timestamp = c stays, with its values.
C6_DeleteAllAndOnlyOlder ==
    [][Prunes =>
          /\ \A r \in store' : r.timestamp >= cutoff'
          /\ \A r \in store : r.timestamp >= cutoff' => r \in store'
          /\ store' \subseteq store]_vars

\* a prune deleted rows and kept a row at the cutoff
C6_Witness ==
    /\ pc = "sleep"
    /\ deleted > 0
    /\ \E r \in store : r.timestamp = cutoff

\* C7: the window query returns no row with timestamp <= now - window,
\* where now is the clock value the call read (qcutoff = now - window).
C7_WindowExcludesCutoff ==
    \A q \in Requests :
        qpc[q] = "fetched" =>
            \A r \in Range(qresult[q]) : ~(r.timestamp <= qcutoff[q])

\* a query left out a row at its cutoff that the retention delete, run with
\* the same cutoff, kept in the store
C7_Witness ==
    /\ qpc[1] = "fetched"
    /\ qresult[1] # <<>>
    /\ pc = "sleep"
    /\ cutoff = qcutoff[1]
    /\ \E r \in store : r.timestamp = qcutoff[1] /\ r \notin Range(qresult[1])

\* C8: the result of a window query is the window of the committed store at
\* the moment of the read: every committed row with timestamp > cutoff, once,
\* and no row of an uncommitted transaction.
C8_QueryReadsSnapshot ==
    [][\A q \in Requests :
          Selects(q) =>
              /\ Range(qresult'[q]) = {r \in store : r.timestamp > qcutoff[q]}
              /\ Len(qresult'[q]) = Cardinality(Range(qresult'[q]))
              /\ \A r \in txn : r \notin Range(qresult'[q])]_vars

\* a request holds a result while a tick is written and not yet committed,
\* and the store holds a row outside the window
C8_Witness ==
    /\ qpc[1] = "fetched"
    /\ pc = "commit"
    /\ txn # {}
    /\ qresult[1] # <<>>
    /\ \E r \in store : r.timestamp <= qcutoff[1]

\* C9: no store failure ends the sampler loop.
C9_FailureNeverEndsLoop == failures > 0 => pc # "crashed"

\* C10: no step of a request changes the stored rows, whatever the other
\* requests are doing.
C10_QueryReadOnly ==
    [][(\E q \in Requests : qpc'[q] # qpc[q]) => store' = store]_vars

\* two requests overlap and hold different results
C10_Witness ==
    /\ qpc[1] = "fetched"
    /\ qpc[2] = "fetched"
    /\ store # {}
    /\ qresult[1] # <<>>
    /\ qresult[2] # <<>>
    /\ qresult[1] # qresult[2]

RangeMin(metric_type) == IF metric_type = "temp" THEN TEMP_MIN ELSE HUMIDITY_MIN
RangeMax(metric_type) == IF metric_type = "temp" THEN TEMP_MAX ELSE HUMIDITY_MAX

\* min(max, max(min, v))
Clamped(metric_type, v) ==
    Min(RangeMax(metric_type), Max(RangeMin(metric_type), v))

\* C11: for every last value a walk reaches and every perturbation the
\* generator returns min(max, max(min, lastValue + perturbation)); from the
\* upper boundary with a positive perturbation it returns the upper boundary,
\* from the lower boundary with a negative one the lower boundary; and every
\* step of a walk is such a result.
C11_ClampsAtBoundary ==
    /\ [](\A s \in SensorIds, m \in METRICS, c \in CHANGES :
            LET v == LAST_VALUES[s][m]
                result == generate_random_walk_value(m, v, c)
            IN  /\ result = Clamped(m, v + c)
                /\ (v = RangeMax(m) /\ c > 0) => result = RangeMax(m)
                /\ (v = RangeMin(m) /\ c < 0) => result = RangeMin(m))
    /\ [][\A s \in SensorIds, m \in METRICS :
            \E c \in CHANGES :
                LAST_VALUES'[s][m] = Clamped(m, LAST_VALUES[s][m] + c)]_vars

\* a walk stands at the upper boundary of humidity, or at the lower boundary
\* of temperature, where a perturbation would carry it out of the range
C11_Witness ==
    \E s \in SensorIds :
        \/ /\ LAST_VALUES[s]["humidity"] = HUMIDITY_MAX
           /\ LAST_VALUES[s]["humidity"] + 2 > HUMIDITY_MAX
        \/ /\ LAST_VALUES[s]["temp"] = TEMP_MIN
           /\ LAST_VALUES[s]["temp"] - 1 < TEMP_MIN

\* C12: the retention delete run again with the same cutoff on the rows it
\* left deletes nothing: this holds for the store a prune of the sampler
\* leaves behind, and for every stored set of rows and every cutoff.
C12_DeleteIdempotent ==
    /\ [][Prunes => DeleteOlderThan(store', cutoff') = store']_vars
    /\ [](\A c \in (0 - WindowSeconds)..(MaxTime + 1) :
            DeleteOlderThan(DeleteOlderThan(store, c), c) = DeleteOlderThan(store, c))

\* a prune deleted rows and left rows, which a second run with its cutoff
\* leaves alone
C12_Witness ==
    /\ pc = "sleep"
    /\ deleted > 0
    /\ store # {}
    /\ Cardinality(store) - Cardinality(DeleteOlderThan(store, cutoff)) = 0

\* the entries i and i + 1 of a result are in the order of the query
InOrder(a, b) ==
    \/ IndexOf(a.sensor_id) < IndexOf(b.sensor_id)
    \/ /\ a.sensor_id = b.sensor_id
       /\ a.timestamp < b.timestamp

C14_RowsImmutableUntilExpired ==
    [][\A r \in store :
          /\ \A r2 \in store' : SameKey(r, r2) => r2 = r
          /\ r \notin store' => (Prunes /\ r.timestamp < now - WindowSeconds)]_vars

\* a prune removed expired rows while the store kept a row inside the window
C14_Witness ==
    /\ pc = "sleep"
    /\ deleted > 0
    /\ \E r \in store : r.timestamp > cutoff /\ r.timestamp <= now

\* the write phase of the tick has ended: nothing is left uncommitted, and
\* either the try block raised or the commit of all sensors was reported
WritePhaseEnded ==
    /\ txn = {}
    /\ \/ failedAt # 0
       \/ /\ sensorIdx = Len(SENSORS)
          /\ stdout # <<>>
          /\ stdout[Len(stdout)] = "Inserted metrics for 3 sensors"

GeneratedNotStored == pc = "insert" /\ pc' = "clean"

\* C16: computing the next values leaves the walk state as it was; an
\* iteration that generates values which the caller never stores leaves
\* LAST_VALUES unchanged.
C16_GeneratorLeavesWalkState ==
    [][GeneratedNotStored => LAST_VALUES' = LAST_VALUES]_vars

\* r2 follows r1 in the stored series of one sensor
Adjacent(r1, r2) ==
    /\ r1.sensor_id = r2.sensor_id
    /\ r1.timestamp < r2.timestamp
    /\ ~\E r \in store :
          /\ r.sensor_id = r1.sensor_id
          /\ r1.timestamp < r.timestamp
          /\ r.timestamp < r2.timestamp

\* C17: of two readings adjacent in the stored series of a sensor, all
\* written by one run of the sampler, the later is the earlier plus one
\* perturbation, clamped, in temperature and in humidity; ticks whose write
\* failed included.
C17_StoredSeriesIsWalk ==
    \A r1 \in store, r2 \in store :
        Adjacent(r1, r2) =>
            /\ \E c \in CHANGES :
                  r2.temperature = generate_random_walk_value("temp", r1.temperature, c)
            /\ \E c \in CHANGES :
                  r2.humidity = generate_random_walk_value("humidity", r1.humidity, c)

\* the tick's write phase ends without its commit: an INSERT or the commit
\* raised, or the loop was cancelled
WriteAborted ==
    /\ pc \in {"insert", "commit"}
    /\ \/ pc' = "stopped"
       \/ pc' = "clean" /\ failedAt' # 0

\* every sensor of the sensor set has a row of db at timestamp t
FullTick(db, t) ==
    \A s \in SensorIds : \E r \in db : r.timestamp = t /\ r.sensor_id = s

\* C18: every timestamp of the committed store is stored for every sensor;
\* a step that adds rows adds them for every sensor of their timestamp; and
\* a write phase that ends by a failed insert, a duplicate key, a failed
\* commit or a cancellation stores no row and leaves none pending.
C18_TickAllOrNothing ==
    /\ [](\A t \in Timestamps(store) : FullTick(store, t))
    /\ [][/\ \A r \in store' \ store : FullTick(store' \ store, r.timestamp)
          /\ WriteAborted => (store' = store /\ txn' = {})]_vars

\* a tick failed at its second or third sensor, after earlier ticks were
\* stored, and the store has no row of the failed tick
C18_Witness ==
    /\ pc = "clean"
    /\ failedAt \in 2..Len(SENSORS)
    /\ failures > 0
    /\ store # {}
    /\ \A r \in store : r.timestamp # timestamp

====
